---- MODULE Spec2Model ----
(***************************************************************************)
(* Model of the wallet generator: main's partitioning of [0, args.count)   *)
(* over num_threads rayon tasks (src/src/main.rs), the two batch workers   *)
(* generate_secp256k1_batch / generate_ethsecp256k1_batch                  *)
(* (src/src/generator.rs), the shared progress counter, the progress       *)
(* reporter thread and the output writer.                                  *)
(*                                                                         *)
(* The cryptographic primitives (BIP32 derivation, secp256k1, hashing,     *)
(* bech32, base64, hex) are library code; each is an injective symbolic    *)
(* term over its inputs, and whether a fallible primitive succeeds at an   *)
(* index is fixed for the run by `outcome`, because every primitive is a   *)
(* deterministic function of (seed, index, prefix).                        *)
(***************************************************************************)
EXTENDS Integers, Sequences, FiniteSets, TLC

\* ---- bounds of the model ----
MaxCount == 3          \* args.count ranges over 0..MaxCount in Init
MaxThreads == 3        \* num_threads ranges over 1..MaxThreads in Init
MaxExtra == 1          \* InitLarge: args.count ranges up to ProgressStep + MaxExtra

\* ---- program constants ----
ProgressStep == 1000   \* generator.rs: i % 1000, fetch_add(1000), count % 1000

Seeds == {"seedA", "seedB"}
KeyTypes == {"Secp256k1", "Ethsecp256k1"}
\* Hrp::parse accepts a non-empty, single-case, printable-ASCII prefix.
ValidPrefixes == {"cosmos", "osmo"}
InvalidPrefixes == {""}
Prefixes == ValidPrefixes \cup InvalidPrefixes
\* What the fallible library calls of one loop iteration can do at an index:
\*   derive_err   ExtendedPrivKey::derive returns Err
\*   invalid_key  SecretKey::from_slice returns Err
\*   encode_err   bech32::encode returns Err
Outcomes == {"ok", "derive_err", "invalid_key", "encode_err"}

VARIABLES
    seed, args_count, num_threads, prefix, key_type,  \* inputs of the run
    outcome,          \* index -> Outcomes, fixed for the run
    progress,         \* the shared AtomicUsize
    pc,               \* per rayon task: "idle" | "loop" | "done" | "panic_prefix" | "panic_key"
    start_idx, count, \* per task: the range computed in the flat_map closure
    i,                \* per task: the loop offset of the batch worker
    wallets,          \* per task: the batch worker's local Vec<Wallet>
    first_done,       \* history: the task that returned first (-1: none yet)
    progress_handle,  \* reporter thread: "polling" | "exited"
    current_count,    \* reporter thread: the last value loaded (progress bar position)
    main_pc,          \* "collect" | "join" | "write" | "writing" | "done" | "panicked" | "io_error"
    all_wallets,      \* main: the collected Vec<Wallet>
    file_created,     \* the output file exists
    sink              \* wallets serialized into the output so far

vars == <<seed, args_count, num_threads, prefix, key_type, outcome, progress, pc,
          start_idx, count, i, wallets, first_done, progress_handle,
          current_count, main_pc, all_wallets, file_created, sink>>

inputs == <<seed, args_count, num_threads, prefix, key_type, outcome>>

Tids == 0 .. (num_threads - 1)

\* ---- pure helpers ----

Min(a, b) == IF a <= b THEN a ELSE b

\* usize::saturating_sub
SaturatingSub(a, b) == IF a >= b THEN a - b ELSE 0

\* Hrp::parse(prefix).is_ok()
HrpParseOk(p) == p \in ValidPrefixes

Outcome(index) == IF index \in DOMAIN outcome THEN outcome[index] ELSE "ok"

\* format!("m/44'/118'/0'/0/{}", index)
DerivationPath(index) == <<44, 118, 0, 0, index>>

\* let index = start_index + i;
DerivationIndexOffsetOnly(start_index, off) == off

DerivationIndex(start_index, off) == start_index + off

\* ExtendedPrivKey::derive(seed, path).secret()
PrivateKey(sd, path) == <<"sk", sd, path[5]>>

\* PublicKey::from_secret_key, base64 of the compressed serialization
PubkeyBase64(sk) == <<"pk", sk[2], sk[3]>>

\* the Wallet pushed by generate_secp256k1_batch
Secp256k1Wallet(sd, index, p) ==
    LET path == DerivationPath(index)
        sk == PrivateKey(sd, path)
    IN [address |-> <<p, "ripemd160_sha256", sk[2], sk[3]>>,
        evm_address |-> <<>>,
        pubkey |-> PubkeyBase64(sk),
        private_key |-> sk,
        derivation_path |-> path]

\* the Wallet pushed by generate_ethsecp256k1_batch
Ethsecp256k1Wallet(sd, index, p) ==
    LET path == DerivationPath(index)
        sk == PrivateKey(sd, path)
    IN [address |-> <<p, "keccak256", sk[2], sk[3]>>,
        evm_address |-> <<"0x", "keccak256", sk[2], sk[3]>>,
        pubkey |-> PubkeyBase64(sk),
        private_key |-> sk,
        derivation_path |-> path]

\* ---- main: partitioning (main.rs 129-143) ----

WalletsPerThreadFloor(total, threads) == total \div threads

WalletsPerThread(total, threads) == (total + threads - 1) \div threads

StartIdx(thread_id) == thread_id * WalletsPerThread(args_count, num_threads)

RangeCountNoClamp(thread_id) ==
    IF thread_id = num_threads - 1
    THEN SaturatingSub(args_count, StartIdx(thread_id))
    ELSE WalletsPerThread(args_count, num_threads)

RangeCount(thread_id) ==
    IF thread_id = num_threads - 1
    THEN SaturatingSub(args_count, StartIdx(thread_id))
    ELSE Min(WalletsPerThread(args_count, num_threads),
             SaturatingSub(args_count, StartIdx(thread_id)))

\* ---- initial states ----

InitRest ==
    /\ progress = 0
    /\ pc = [t \in Tids |-> "idle"]
    /\ start_idx = [t \in Tids |-> 0]
    /\ count = [t \in Tids |-> 0]
    /\ i = [t \in Tids |-> 0]
    /\ wallets = [t \in Tids |-> <<>>]
    /\ first_done = -1
    /\ progress_handle = "polling"
    /\ current_count = 0
    /\ main_pc = "collect"
    /\ all_wallets = <<>>
    /\ file_created = FALSE
    /\ sink = <<>>

Init ==
    /\ seed \in Seeds
    /\ args_count \in 0 .. MaxCount
    /\ num_threads \in 1 .. MaxThreads
    /\ prefix \in Prefixes
    /\ key_type \in KeyTypes
    /\ outcome \in [0 .. (args_count - 1) -> Outcomes]
    /\ InitRest

\* ---- rayon tasks ----

Terminal(t) == pc[t] \in {"done", "panic_prefix", "panic_key"}

NoteDone(t) == first_done' = IF first_done = -1 THEN t ELSE first_done

\* The flat_map closure up to the batch worker's loop: the range, the
\* count == 0 shortcut, and Hrp::parse(prefix).expect("Invalid prefix").
WorkerStart(t) ==
    /\ main_pc = "collect"
    /\ pc[t] = "idle"
    /\ start_idx' = [start_idx EXCEPT ![t] = StartIdx(t)]
    /\ count' = [count EXCEPT ![t] = RangeCount(t)]
    /\ IF RangeCount(t) = 0
       THEN /\ pc' = [pc EXCEPT ![t] = "done"]
            /\ NoteDone(t)
       ELSE /\ pc' = [pc EXCEPT ![t] =
                        IF HrpParseOk(prefix) THEN "loop" ELSE "panic_prefix"]
            /\ UNCHANGED first_done
    /\ UNCHANGED <<inputs, progress, i, wallets, progress_handle, current_count,
                   main_pc, all_wallets, file_created, sink>>

\* if i % 1000 == 0 { progress.fetch_add(1000, Relaxed) }
StepAddNever(off) == 0

StepAdd(off) == IF off % ProgressStep = 0 THEN ProgressStep ELSE 0

\* progress.fetch_add(count % 1000, Relaxed)
RemainderAdd(c) == c % ProgressStep

\* One iteration of the loop of generate_secp256k1_batch.
Secp256k1Iter(t) ==
    /\ key_type = "Secp256k1"
    /\ pc[t] = "loop"
    /\ i[t] < count[t]
    /\ LET index == DerivationIndex(start_idx[t], i[t])
       IN IF Outcome(index) = "invalid_key"
          THEN \* SecretKey::from_slice(..).expect("Invalid key")
               /\ pc' = [pc EXCEPT ![t] = "panic_key"]
               /\ UNCHANGED <<wallets, i, progress>>
          ELSE /\ wallets' = [wallets EXCEPT ![t] =
                                IF Outcome(index) = "ok"
                                THEN Append(@, Secp256k1Wallet(seed, index, prefix))
                                ELSE @]
               /\ progress' = progress + StepAdd(i[t])
               /\ i' = [i EXCEPT ![t] = @ + 1]
               /\ UNCHANGED pc
    /\ UNCHANGED <<inputs, start_idx, count, first_done, progress_handle,
                   current_count, main_pc, all_wallets, file_created, sink>>

\* One iteration of the loop of generate_ethsecp256k1_batch.
Ethsecp256k1Iter(t) ==
    /\ key_type = "Ethsecp256k1"
    /\ pc[t] = "loop"
    /\ i[t] < count[t]
    /\ LET index == DerivationIndex(start_idx[t], i[t])
       IN IF Outcome(index) = "invalid_key"
          THEN \* SecretKey::from_slice(..).expect("Invalid key")
               /\ pc' = [pc EXCEPT ![t] = "panic_key"]
               /\ UNCHANGED <<wallets, i, progress>>
          ELSE /\ wallets' = [wallets EXCEPT ![t] =
                                IF Outcome(index) = "ok"
                                THEN Append(@, Ethsecp256k1Wallet(seed, index, prefix))
                                ELSE @]
               /\ progress' = progress + StepAdd(i[t])
               /\ i' = [i EXCEPT ![t] = @ + 1]
               /\ UNCHANGED pc
    /\ UNCHANGED <<inputs, start_idx, count, first_done, progress_handle,
                   current_count, main_pc, all_wallets, file_created, sink>>

\* After the loop: the remainder is added and the local Vec is returned.
BatchReturn(t) ==
    /\ pc[t] = "loop"
    /\ i[t] = count[t]
    /\ progress' = progress + RemainderAdd(count[t])
    /\ pc' = [pc EXCEPT ![t] = "done"]
    /\ NoteDone(t)
    /\ UNCHANGED <<inputs, start_idx, count, i, wallets, progress_handle,
                   current_count, main_pc, all_wallets, file_created, sink>>

\* ---- reporter thread (main.rs 102-126) ----

ReporterExitStrict(cur) == cur > args_count

ReporterExit(cur) == cur >= args_count

ReporterPoll ==
    /\ progress_handle = "polling"
    /\ main_pc # "panicked"
    /\ current_count' = progress
    /\ progress_handle' = IF ReporterExit(progress) THEN "exited" ELSE "polling"
    /\ UNCHANGED <<inputs, progress, pc, start_idx, count, i, wallets, first_done,
                   main_pc, all_wallets, file_created, sink>>

\* ---- main thread ----

RECURSIVE Concat(_, _)
Concat(vecs, n) == IF n = 0 THEN <<>> ELSE Concat(vecs, n - 1) \o vecs[n - 1]

RECURSIVE ConcatReversed(_, _)
ConcatReversed(vecs, n) == IF n = 0 THEN <<>> ELSE vecs[n - 1] \o ConcatReversed(vecs, n - 1)

FlatMapCollectReversed(vecs, n) == ConcatReversed(vecs, n)

\* (0..num_threads).into_par_iter().flat_map(..).collect(): an indexed
\* parallel iterator collects in task-index order.
FlatMapCollect(vecs, n) == Concat(vecs, n)

CollectReadyAny == \E t \in Tids : Terminal(t)

CollectReady == \A t \in Tids : Terminal(t)

\* collect() returns once every task has ended; a task's panic is resumed
\* in main, whose unwinding ends the process.
MainCollect ==
    /\ main_pc = "collect"
    /\ CollectReady
    /\ IF \E t \in Tids : pc[t] \in {"panic_prefix", "panic_key"}
       THEN /\ main_pc' = "panicked"
            /\ UNCHANGED all_wallets
       ELSE /\ main_pc' = "join"
            /\ all_wallets' = FlatMapCollect(wallets, num_threads)
    /\ UNCHANGED <<inputs, progress, pc, start_idx, count, i, wallets, first_done,
                   progress_handle, current_count, file_created, sink>>

\* progress_handle.join().unwrap()
MainJoin ==
    /\ main_pc = "join"
    /\ progress_handle = "exited"
    /\ main_pc' = "write"
    /\ UNCHANGED <<inputs, progress, pc, start_idx, count, i, wallets, first_done,
                   progress_handle, current_count, all_wallets, file_created, sink>>

\* fs::create_dir_all, File::create, write_all(b"[")
WriteOpen ==
    /\ main_pc = "write"
    /\ main_pc' = "writing"
    /\ file_created' = TRUE
    /\ UNCHANGED <<inputs, progress, pc, start_idx, count, i, wallets, first_done,
                   progress_handle, current_count, all_wallets, sink>>

\* one round of the for loop over all_wallets
WriteWallet ==
    /\ main_pc = "writing"
    /\ Len(sink) < Len(all_wallets)
    /\ sink' = Append(sink, all_wallets[Len(sink) + 1])
    /\ UNCHANGED <<inputs, progress, pc, start_idx, count, i, wallets, first_done,
                   progress_handle, current_count, main_pc, all_wallets, file_created>>

\* write_all(b"\n]"), flush
WriteClose ==
    /\ main_pc = "writing"
    /\ Len(sink) = Len(all_wallets)
    /\ main_pc' = "done"
    /\ UNCHANGED <<inputs, progress, pc, start_idx, count, i, wallets, first_done,
                   progress_handle, current_count, all_wallets, file_created, sink>>

\* any `?` of the writing section returning Err
WriteFail ==
    /\ main_pc \in {"write", "writing"}
    /\ main_pc' = "io_error"
    /\ UNCHANGED <<inputs, progress, pc, start_idx, count, i, wallets, first_done,
                   progress_handle, current_count, all_wallets, file_created, sink>>

Worker(t) ==
    /\ t \in Tids
    /\ \/ WorkerStart(t)
       \/ Secp256k1Iter(t)
       \/ Ethsecp256k1Iter(t)
       \/ BatchReturn(t)

Next ==
    \/ \E t \in Tids : WorkerStart(t)
    \/ \E t \in Tids : Secp256k1Iter(t)
    \/ \E t \in Tids : Ethsecp256k1Iter(t)
    \/ \E t \in Tids : BatchReturn(t)
    \/ ReporterPoll
    \/ MainCollect
    \/ MainJoin
    \/ WriteOpen
    \/ WriteWallet
    \/ WriteClose
    \/ WriteFail

Spec == Init /\ [][Next]_vars

\* Weak fairness of every thread: each rayon task, the reporter thread and
\* main's two blocking points (collect, join). I/O errors are never forced.
\* The schedule does not read the seed or the spelling of a valid prefix.
InitFair ==
    /\ seed = "seedA"
    /\ args_count \in 0 .. MaxCount
    /\ num_threads \in 1 .. MaxThreads
    /\ prefix \in {"cosmos", ""}
    /\ key_type \in KeyTypes
    /\ outcome \in [0 .. (args_count - 1) -> Outcomes]
    /\ InitRest

FairSpec ==
    /\ InitFair
    /\ [][Next]_vars
    /\ \A t \in 0 .. MaxThreads : WF_vars(Worker(t))
    /\ WF_vars(ReporterPoll)
    /\ WF_vars(MainCollect)
    /\ WF_vars(MainJoin)

\* One batch worker over a range that crosses the progress step. Either every
\* index succeeds, or bech32::encode rejects the prefix at every index (its
\* result depends on the prefix and the payload length only) and one index
\* f has the outcome o.
LargeFaultIdx == {0, ProgressStep}

LargeOutcomes(n) ==
    {[k \in 0 .. (n - 1) |-> "ok"]} \cup
    {[k \in 0 .. (n - 1) |-> IF k = f THEN o ELSE "encode_err"] :
        f \in LargeFaultIdx, o \in Outcomes}

InitLarge ==
    /\ seed = "seedA"
    /\ args_count \in (ProgressStep - 1) .. (ProgressStep + MaxExtra)
    /\ num_threads = 1
    /\ prefix = "cosmos"
    /\ key_type \in KeyTypes
    /\ outcome \in LargeOutcomes(args_count)
    /\ InitRest

SpecLarge == InitLarge /\ [][Next]_vars

\* ---- properties ----

RECURSIVE SumCounts(_)
SumCounts(n) == IF n = 0 THEN 0 ELSE SumCounts(n - 1) + count[n - 1]

AllStarted == \A t \in Tids : pc[t] # "idle"

AllReturned == \A t \in Tids : pc[t] = "done"

Collected == main_pc \in {"join", "write", "writing", "done", "io_error"}

InRange(t, idx) == start_idx[t] <= idx /\ idx < start_idx[t] + count[t]

\* the least q with q * num_threads >= args_count
CeilPerWorker ==
    CHOOSE q \in 0 .. args_count :
        /\ q * num_threads >= args_count
        /\ (q = 0 \/ (q - 1) * num_threads < args_count)

WalletIndex(w) == w.derivation_path[5]

WalletOf(index) ==
    IF key_type = "Secp256k1"
    THEN Secp256k1Wallet(seed, index, prefix)
    ELSE Ethsecp256k1Wallet(seed, index, prefix)

\* the wallets of the indices of [lo, lo + n) whose steps all succeed, ascending
RECURSIVE OkWallets(_, _)
OkWallets(lo, n) ==
    IF n = 0 THEN <<>>
    ELSE LET rest == OkWallets(lo, n - 1)
             index == lo + n - 1
         IN IF Outcome(index) = "ok" THEN Append(rest, WalletOf(index)) ELSE rest

\* C1: once every worker has computed its range, the ranges cover every
\* index of [0, args_count) exactly once, assign no index >= args_count,
\* and their lengths sum to args_count.
C1_PartitionComplete ==
    AllStarted =>
        /\ \A idx \in 0 .. (args_count - 1) :
               Cardinality({t \in Tids : InRange(t, idx)}) = 1
        /\ \A t \in Tids :
               \A idx \in start_idx[t] .. (start_idx[t] + count[t] - 1) :
                   idx < args_count
        /\ SumCounts(num_threads) = args_count

C1_Witness ==
    /\ AllStarted
    /\ args_count >= 1
    /\ num_threads > args_count
    /\ \E t \in Tids : count[t] = 0 /\ start_idx[t] > args_count

\* C2: the collected wallet sequence is strictly ascending by derivation
\* index, whatever the order in which the workers returned.
C2_OrderPreserved ==
    Collected =>
        \A a \in 1 .. Len(all_wallets) : \A b \in 1 .. Len(all_wallets) :
            a < b => WalletIndex(all_wallets[a]) < WalletIndex(all_wallets[b])

C2_Witness ==
    /\ Collected
    /\ num_threads >= 2
    /\ first_done = num_threads - 1
    /\ Len(wallets[0]) >= 1
    /\ Len(wallets[num_threads - 1]) >= 1

\* C3: the collected sequence is the sequence of the wallets of the
\* successful indices of [0, args_count), each a function of
\* (seed, index, key_type, prefix) alone: it does not depend on num_threads,
\* on the partitioning or on the schedule.
C3_PartitionIndependent ==
    Collected => all_wallets = OkWallets(0, args_count)

C3_Witness ==
    /\ Collected
    /\ num_threads >= 2
    /\ \E t \in Tids : start_idx[t] > 0 /\ Len(wallets[t]) >= 1

\* C4 as stated: every worker but the last gets exactly ceil(total/workers)
\* indices and the last gets total - (workers - 1) * ceil.
C4_Original ==
    AllStarted =>
        \A t \in Tids :
            count[t] = IF t < num_threads - 1
                       THEN CeilPerWorker
                       ELSE args_count - (num_threads - 1) * CeilPerWorker

\* C4 amended: a worker other than the last gets ceil(total/workers) indices
\* when its whole range lies below total, else the indices that remain below
\* total (none when its start is at or beyond total); the last worker gets
\* total - (workers - 1) * ceil, or none when that is negative.
C4_RangeSizes ==
    AllStarted =>
        \A t \in Tids :
            IF t < num_threads - 1
            THEN count[t] = IF (t + 1) * CeilPerWorker <= args_count
                            THEN CeilPerWorker
                            ELSE IF t * CeilPerWorker < args_count
                                 THEN args_count - t * CeilPerWorker
                                 ELSE 0
            ELSE count[t] = IF t * CeilPerWorker <= args_count
                            THEN args_count - t * CeilPerWorker
                            ELSE 0

C4_Witness ==
    /\ AllStarted
    /\ args_count >= 1
    /\ \E t \in Tids : t < num_threads - 1 /\ count[t] < CeilPerWorker

\* C5: with an invalid prefix the run fails before any work: no index is
\* processed, no wallet is produced, nothing is written.
C5_InvalidPrefixAborts ==
    ~HrpParseOk(prefix) =>
        /\ \A t \in Tids : i[t] = 0 /\ wallets[t] = <<>>
        /\ all_wallets = <<>>
        /\ ~file_created
        /\ sink = <<>>
        /\ main_pc # "done"

\* C6: a failure at one index never aborts the batch; a worker that has
\* returned holds exactly the wallets of the successful indices of its
\* range, ascending.
C6_FailureOmitsIndexOnly ==
    \A t \in Tids :
        /\ pc[t] # "panic_key"
        /\ pc[t] = "done" => wallets[t] = OkWallets(start_idx[t], count[t])

\* C7: once every worker has returned, the counter equals args_count.
C7_CounterConverges ==
    AllReturned => progress = args_count

\* C8: under fair scheduling, unless a worker panics, the reporter exits and
\* main gets past the join to the writing section.
C8_ReporterTerminates ==
    <>(\/ \E t \in Tids : pc[t] \in {"panic_prefix", "panic_key"}
       \/ progress_handle = "exited" /\ main_pc = "write")

C8_Witness ==
    /\ num_threads >= 2
    /\ args_count >= 2
    /\ Len(all_wallets) < args_count
    /\ progress_handle = "exited"
    /\ main_pc = "write"

\* C9: the output is touched only after every worker has returned and the
\* reporter thread has ended.
C9_WriteAfterAll ==
    (main_pc \in {"write", "writing", "done", "io_error"} \/ file_created \/ sink # <<>>) =>
        /\ AllReturned
        /\ progress_handle = "exited"

C9_Witness ==
    /\ main_pc = "writing"
    /\ num_threads >= 2
    /\ Len(sink) >= 2

\* what a step of worker t adds to the counter according to C10
C10_Delta(t) ==
    IF i'[t] = i[t] + 1
    THEN (IF i[t] % ProgressStep = 0 THEN ProgressStep ELSE 0)
    ELSE IF pc[t] = "loop" /\ pc'[t] = "done"
         THEN count[t] % ProgressStep
         ELSE 0

RECURSIVE C10_SumDelta(_)
C10_SumDelta(n) == IF n = 0 THEN 0 ELSE C10_SumDelta(n - 1) + C10_Delta(n - 1)

\* C10: a step adds ProgressStep to the counter exactly when it completes
\* the iteration at an offset that is a multiple of ProgressStep (wallet
\* produced or not), the return after the loop adds count % ProgressStep,
\* and nothing else changes the counter; it never decreases.
C10_ProgressUpdates ==
    [][/\ progress' - progress = C10_SumDelta(num_threads)
       /\ progress' >= progress]_vars

C10_Witness ==
    /\ pc[0] = "done"
    /\ count[0] > ProgressStep
    /\ Outcome(ProgressStep) = "derive_err"
    /\ i[0] = count[0]
    /\ progress = 2 * ProgressStep + (count[0] % ProgressStep)

====
